---- MODULE Spec2Model ----
(***************************************************************************)
(* normalize_labels.py of the Building Defect Detection dataset:           *)
(* canonicalisation of YOLO class names, the old-index -> new-index remap, *)
(* the per-split label rewrite, the backup and the data.yaml update.       *)
(*                                                                         *)
(* A string is a sequence of one-character strings, so that strip, lower,  *)
(* replace, split, join, int() and str() are computed character by         *)
(* character.                                                              *)
(***************************************************************************)
EXTENDS Integers, Sequences, FiniteSets, TLC

VARIABLES
    raw,          \* normalize_label_name: the argument of the first call
    once,         \* normalize_label_name(raw)
    twice,        \* normalize_label_name(normalize_label_name(raw))
    npc,          \* position of the normalisation harness
    old_names,    \* main: list(cfg.get("names", []))
    new_names,    \* main: the canonical taxonomy
    remap,        \* main: old index -> new index
    bpc,          \* position of the build_names_and_remap harness
    apply,        \* args.apply
    labels,       \* disk: <root>/<split>/labels, the .txt files by stem
    images,       \* disk: the stems of the .jpg files under <root>/<split>/images
    ps,           \* process_split: position ("idle" when not called)
    ps_split,     \* process_split: the split of split_dir
    label_files,  \* process_split: the sorted list of label files
    fi,           \* process_split: index in label_files of the next file
    num,          \* process_split: the four counters
    issues,       \* process_split: the issues list
    writes,       \* the files written since the caller last cleared this log
    pass,         \* rewrite harness: how many calls of process_split were made
    manifest,     \* disk: <root>/data.yaml
    backup,       \* disk: <root>/<backup_dirname>
    pc,           \* main: position ("idle" when no run)
    cfg,          \* main: the loaded data.yaml
    si,           \* main: index in Splits of the split of the loop
    total,        \* main: total_processed, total_empty, total_missing_*
    all_issues,   \* main: the merged issues list
    report,       \* main: the RemapReport printed
    bk,           \* main: how backup_dataset returned in this run
    bi,           \* backup_dataset: index in Splits of the split of the loop
    run,          \* how many runs of the script were started
    first,        \* orphan harness: what the first call of process_split returned
    last,         \* how the previous run of the script ended
    orig,         \* disk: the dataset as it was before the first run
    returned,     \* main: what process_split returned, one entry per split
    prev          \* what the previous run of the script computed and printed

normVars == <<raw, once, twice, npc>>
buildVars == <<old_names, new_names, remap, bpc>>
splitVars == <<ps, ps_split, label_files, fi, num, issues>>
diskVars == <<labels, images, writes>>
callVars == <<apply, pass>>
mainVars == <<manifest, backup, pc, cfg, si, total, all_issues, report, bk, bi, run>>
histVars == <<first, last, orig, returned, prev>>

vars == <<raw, once, twice, npc, old_names, new_names, remap, bpc,
          apply, labels, images, ps, ps_split, label_files, fi, num, issues,
          writes, pass, manifest, backup, pc, cfg, si, total, all_issues,
          report, bk, bi, run, first, last, orig, returned, prev>>

-----------------------------------------------------------------------------
(* Characters and the str methods normalize_label_name uses.               *)

UpperCase == <<"A","B","C","D","E","F","G","H","I","J","K","L","M",
               "N","O","P","Q","R","S","T","U","V","W","X","Y","Z">>
LowerCase == <<"a","b","c","d","e","f","g","h","i","j","k","l","m",
               "n","o","p","q","r","s","t","u","v","w","x","y","z">>

\* str.isspace for the characters of the model
Whitespace == {" ", "\t", "\n"}

\* one character of str.lower()
LowerChar(c) ==
    IF \E i \in 1..Len(UpperCase) : UpperCase[i] = c
    THEN LowerCase[CHOOSE i \in 1..Len(UpperCase) : UpperCase[i] = c]
    ELSE c

\* str.lower()
Lower(s) == [i \in 1..Len(s) |-> LowerChar(s[i])]

\* str.replace(a, b) for one-character a and b
Replace(s, a, b) == [i \in 1..Len(s) |-> IF s[i] = a THEN b ELSE s[i]]

RECURSIVE LStrip(_)
LStrip(s) ==
    IF s # <<>> /\ Head(s) \in Whitespace THEN LStrip(Tail(s)) ELSE s

RECURSIVE RStrip(_)
RStrip(s) ==
    IF s # <<>> /\ s[Len(s)] \in Whitespace
    THEN RStrip(SubSeq(s, 1, Len(s) - 1))
    ELSE s

\* str.strip()
Strip_None(s) == s

Strip(s) == RStrip(LStrip(s))

\* str.split(): the maximal runs of non-whitespace characters, in order.
\* cur is the run being read, acc the runs already closed.
RECURSIVE SplitFrom(_, _, _)
SplitFrom(s, cur, acc) ==
    IF s = <<>>
    THEN IF cur = <<>> THEN acc ELSE Append(acc, cur)
    ELSE IF Head(s) \in Whitespace
         THEN SplitFrom(Tail(s), <<>>, IF cur = <<>> THEN acc ELSE Append(acc, cur))
         ELSE SplitFrom(Tail(s), Append(cur, Head(s)), acc)

Split(s) == SplitFrom(s, <<>>, <<>>)

\* sep.join(parts)
RECURSIVE Join(_, _)
Join(sep, parts) ==
    IF parts = <<>> THEN <<>>
    ELSE IF Len(parts) = 1 THEN parts[1]
    ELSE parts[1] \o sep \o Join(sep, Tail(parts))

-----------------------------------------------------------------------------
(* Class names                                                             *)

damaged == <<"d","a","m","a","g","e","d">>
Damaged == <<"D","a","m","a","g","e","d">>
roof    == <<"r","o","o","f">>
Roof    == <<"R","o","o","f">>
window  == <<"w","i","n","d","o","w">>
Window  == <<"W","i","n","d","o","w">>
broken  == <<"b","r","o","k","e","n">>
wall    == <<"w","a","l","l">>
leaking == <<"l","e","a","k","i","n","g">>
SP      == <<" ">>
TAB     == <<"\t">>
HY      == <<"-">>
US      == <<"_">>

\* the table safe_aliases, in the dict's order: canonical name, variants
safe_aliases ==
    << [canonical |-> damaged \o US \o roof,
        variants  |-> {damaged \o US \o roof, damaged \o roof,
                       damaged \o US \o US \o roof}],
       [canonical |-> wall \o US \o leaking,
        variants  |-> {wall \o US \o leaking, wall \o HY \o leaking,
                       wall \o US \o US \o leaking}],
       [canonical |-> broken \o US \o window,
        variants  |-> {broken \o US \o window, broken \o window}],
       [canonical |-> <<"b","u","i","l","d","i","n","g">>,
        variants  |-> {<<"b","u","i","l","d","i","n","g">>}],
       [canonical |-> roof,   variants |-> {roof}],
       [canonical |-> window, variants |-> {window}],
       [canonical |-> <<"c","r","a","c","k">>,
        variants  |-> {<<"c","r","a","c","k">>}],
       [canonical |-> <<"d","a","m","a","g","e">>,
        variants  |-> {<<"d","a","m","a","g","e">>}] >>

\* name.replace("  ", " "): one pass over non-overlapping pairs of spaces
RECURSIVE Collapse_ReplaceOnce(_)
Collapse_ReplaceOnce(name) ==
    IF Len(name) < 2 THEN name
    ELSE IF name[1] = " " /\ name[2] = " "
         THEN SP \o Collapse_ReplaceOnce(SubSeq(name, 3, Len(name)))
         ELSE <<name[1]>> \o Collapse_ReplaceOnce(Tail(name))

\* " ".join(name.split()): collapse runs of whitespace, drop it at the ends
Collapse(name) == Join(SP, Split(name))

\* the loop over safe_aliases.items(): the first entry holding name decides
RECURSIVE AliasFrom(_, _)
AliasFrom(name, k) ==
    IF k > Len(safe_aliases) THEN name
    ELSE IF name \in safe_aliases[k].variants THEN safe_aliases[k].canonical
    ELSE AliasFrom(name, k + 1)

\* the normal form before the alias table is consulted
Normalized(rawname) ==
    LET n1 == Lower(Strip(rawname))
        n2 == Replace(Replace(n1, "-", " "), "_", " ")
        n3 == Collapse(n2)
    IN  Replace(n3, " ", "_")

normalize_label_name(rawname) == AliasFrom(Normalized(rawname), 1)

-----------------------------------------------------------------------------
(* Raw names: concatenations of at most MaxChunks chunks.                  *)

MaxChunks == 3

Chunks == {damaged, Damaged, roof, Roof, Window, broken, window, SP, TAB, HY, US}

RECURSIVE NamesOf(_)
NamesOf(n) ==
    IF n = 0 THEN {<<>>}
    ELSE LET shorter == NamesOf(n - 1)
         IN  shorter \cup {s \o c : s \in shorter, c \in Chunks}

RawNames == NamesOf(MaxChunks)

-----------------------------------------------------------------------------
(* build_names_and_remap                                                   *)

\* the key looked up in seen (line 96: norm = normalize_label_name(name))
SeenKey_Raw(name) == name

SeenKey(name) == normalize_label_name(name)

\* the index given to an unseen canonical name (line 98)
AssignedIndex_OldIdx(old_idx, new) == old_idx

AssignedIndex(old_idx, new) == Len(new)

\* new_names.append(norm) (line 99)
AppendName_Front(new, norm) == <<norm>> \o new

AppendName(new, norm) == Append(new, norm)

\* The loop of lines 95-100 from old index old_idx on. old_idx counts from 0
\* as enumerate does; names[old_idx + 1] is the name at that index. seen is
\* the dict norm -> new index, new the list new_names, rm the dict remap.
RECURSIVE BuildLoop(_, _, _, _, _)
BuildLoop(names, old_idx, seen, new, rm) ==
    IF old_idx >= Len(names)
    THEN [new_names |-> new, remap |-> rm]
    ELSE LET name  == names[old_idx + 1]
             norm  == normalize_label_name(name)
             key   == SeenKey(name)
             fresh == key \notin DOMAIN seen
             seen2 == IF fresh
                      THEN (key :> AssignedIndex(old_idx, new)) @@ seen
                      ELSE seen
             new2  == IF fresh THEN AppendName(new, norm) ELSE new
         IN  BuildLoop(names, old_idx + 1, seen2, new2,
                       (old_idx :> seen2[key]) @@ rm)

build_names_and_remap(names) == BuildLoop(names, 0, <<>>, <<>>, <<>>)

\* Raw taxonomies: at most MaxNames names of the manifest's names list
MaxNames == 3

TaxonomyNames ==
    {Damaged \o SP \o Roof, damaged \o HY \o roof, Window,
     damaged \o roof, window \o SP}

RECURSIVE TaxonomiesOf(_)
TaxonomiesOf(n) ==
    IF n = 0 THEN {<<>>}
    ELSE LET shorter == TaxonomiesOf(n - 1)
         IN  shorter \cup {Append(t, x) : t \in shorter, x \in TaxonomyNames}

Taxonomies == TaxonomiesOf(MaxNames)

NoNames == <<>>
NoRemap == <<>>

BuildIdle ==
    /\ old_names = NoNames
    /\ new_names = NoNames
    /\ remap = NoRemap
    /\ bpc = "idle"

BuildInit ==
    /\ old_names \in Taxonomies
    /\ new_names = NoNames
    /\ remap = NoRemap
    /\ bpc = "names"

Build ==
    /\ bpc = "names"
    /\ LET r == build_names_and_remap(old_names)
       IN  /\ new_names' = r.new_names
           /\ remap' = r.remap
    /\ bpc' = "built"
    /\ UNCHANGED old_names
    /\ UNCHANGED <<normVars, histVars, splitVars, diskVars, callVars, mainVars>>

-----------------------------------------------------------------------------
(* Label files: int(), str(), splitlines() and the line loop of            *)
(* process_split                                                           *)

Digits == <<"0","1","2","3","4","5","6","7","8","9">>

IsDigit(c) == \E d \in 1..Len(Digits) : Digits[d] = c

DigitVal(c) == (CHOOSE d \in 1..Len(Digits) : Digits[d] = c) - 1

\* the value of a string of digits, underscores skipped
RECURSIVE DigitsValue(_, _)
DigitsValue(s, acc) ==
    IF s = <<>> THEN acc
    ELSE IF Head(s) = "_" THEN DigitsValue(Tail(s), acc)
    ELSE DigitsValue(Tail(s), 10 * acc + DigitVal(Head(s)))

\* digits, with single underscores allowed between two digits
WellFormedDigits(s) ==
    /\ s # <<>>
    /\ \A i \in 1..Len(s) : IsDigit(s[i]) \/ s[i] = "_"
    /\ IsDigit(s[1])
    /\ IsDigit(s[Len(s)])
    /\ \A i \in 1..(Len(s) - 1) : ~(s[i] = "_" /\ s[i + 1] = "_")

\* int(tok) for a token without whitespace: ok is FALSE where int raises
ParseInt(tok) ==
    LET signed == tok # <<>> /\ Head(tok) \in {"+", "-"}
        body   == IF signed THEN Tail(tok) ELSE tok
    IN  IF WellFormedDigits(body)
        THEN [ok  |-> TRUE,
              val |-> IF signed /\ Head(tok) = "-"
                      THEN 0 - DigitsValue(body, 0)
                      ELSE DigitsValue(body, 0)]
        ELSE [ok |-> FALSE, val |-> 0]

\* str(n)
RECURSIVE Str(_)
Str(n) ==
    IF n < 0 THEN <<"-">> \o Str(0 - n)
    ELSE IF n < 10 THEN <<Digits[n + 1]>>
    ELSE Str(n \div 10) \o <<Digits[(n % 10) + 1]>>

NL == <<"\n">>

\* str.splitlines() with "\n" as the only line boundary of the model
RECURSIVE SplitLinesFrom(_, _, _)
SplitLinesFrom(s, cur, acc) ==
    IF s = <<>>
    THEN IF cur = <<>> THEN acc ELSE Append(acc, cur)
    ELSE IF Head(s) = "\n"
         THEN SplitLinesFrom(Tail(s), <<>>, Append(acc, cur))
         ELSE SplitLinesFrom(Tail(s), Append(cur, Head(s)), acc)

SplitLines(s) == SplitLinesFrom(s, <<>>, <<>>)

\* an entry of the issues list: the kind of message and what it names
Issue(kind, split, stem, token) ==
    [kind |-> kind, split |-> split, stem |-> stem, token |-> token]

\* line 167: the condition under which the class id is replaced
IdChanged_Always(new_idx, old_idx) == TRUE

IdChanged(new_idx, old_idx) == new_idx # old_idx

\* line 168: parts[0] = str(new_idx)
NewIdToken_Old(new_idx, old_idx) == Str(old_idx)

NewIdToken(new_idx, old_idx) == Str(new_idx)

\* line 170: the line kept for parts
KeptLine_IdOnly(parts) == parts[1]

KeptLine(parts) == Join(SP, parts)

\* line 163: old_idx not in remap
Unmapped(old_idx, rm) == old_idx \notin DOMAIN rm

\* The loop of lines 154-170 over lines[k..]; new is new_lines, ch is changed,
\* iss the issues appended so far.
RECURSIVE LineLoop(_, _, _, _, _, _, _, _)
LineLoop(lines, k, rm, split, stem, new, ch, iss) ==
    IF k > Len(lines)
    THEN [new_lines |-> new, changed |-> ch, issues |-> iss]
    ELSE LET parts  == Split(Strip(lines[k]))
             parsed == ParseInt(parts[1])
             old_idx == parsed.val
             new_idx == rm[old_idx]
         IN  IF parts = <<>>
             THEN LineLoop(lines, k + 1, rm, split, stem, new, ch, iss)
             ELSE IF ~parsed.ok
             THEN LineLoop(lines, k + 1, rm, split, stem, new, ch,
                           Append(iss, Issue("non_integer", split, stem, parts[1])))
             ELSE IF Unmapped(old_idx, rm)
             THEN LineLoop(lines, k + 1, rm, split, stem, new, ch,
                           Append(iss, Issue("not_in_remap", split, stem, Str(old_idx))))
             ELSE IF IdChanged(new_idx, old_idx)
             THEN LineLoop(lines, k + 1, rm, split, stem,
                           Append(new, KeptLine([parts EXCEPT ![1] =
                                                    NewIdToken(new_idx, old_idx)])),
                           TRUE, iss)
             ELSE LineLoop(lines, k + 1, rm, split, stem,
                           Append(new, KeptLine(parts)), ch, iss)

\* line 171: the condition under which the file is written
ShouldWrite_Changed(ap, changed) == changed

ShouldWrite_Apply(ap, changed) == ap

ShouldWrite(ap, changed) == ap /\ changed

\* line 172: the text written
WrittenText(new_lines) == Join(NL, new_lines) \o NL

-----------------------------------------------------------------------------
(* The label and image trees, and process_split                            *)

Splits == <<"train", "valid", "test">>

\* file stems in sorted() order
StemOrder == <<"a", "b", "c">>

Stems == {StemOrder[i] : i \in 1..Len(StemOrder)}

\* sorted(S) for a set of stems
Sorted_Reversed(S) ==
    LET up == SelectSeq(StemOrder, LAMBDA x : x \in S)
    IN  [i \in 1..Len(up) |-> up[Len(up) + 1 - i]]

Sorted(S) == SelectSeq(StemOrder, LAMBDA x : x \in S)

\* a label file: readable is FALSE when read_text raises (not UTF-8, no
\* permission); text is its content
TextFile(text) == [readable |-> TRUE, writable |-> TRUE, text |-> text]
UnreadableFile == [readable |-> FALSE, writable |-> TRUE, text |-> <<>>]

\* a file write_text cannot open for writing (line 172 raises)
ReadOnlyFile(text) == [readable |-> TRUE, writable |-> FALSE, text |-> text]

\* a labels directory: exists is FALSE when <split>/labels is missing
NoDir == [exists |-> FALSE, files |-> <<>>]
Dir(files) == [exists |-> TRUE, files |-> files]

\* iter_label_files: the stems of the .txt files, sorted
iter_label_files(dir) ==
    IF ~dir.exists THEN <<>> ELSE Sorted(DOMAIN dir.files)

NoCounts ==
    [processed |-> 0, empty |-> 0, missing_images |-> 0, missing_labels |-> 0]

SplitIdle ==
    /\ ps = "idle"
    /\ ps_split = "none"
    /\ label_files = <<>>
    /\ fi = 1
    /\ num = NoCounts
    /\ issues = <<>>

\* no dataset on disk and no run
DiskIdle ==
    /\ labels = [s \in {Splits[i] : i \in 1..Len(Splits)} |-> NoDir]
    /\ images = [s \in {Splits[i] : i \in 1..Len(Splits)} |-> {}]
    /\ writes = {}
    /\ apply = FALSE
    /\ pass = 0

\* data.yaml: names is the class list ([] when the key is missing), nc the
\* class count, other the rest of the document. names_type is the YAML type
\* of the value of names: "list" a sequence of strings, "str" one scalar
\* string, "ints" a mapping keyed by the class indices (or a sequence of
\* integers, each written in names by its decimal digits), "null" no value.
MissingManifest ==
    [exists |-> FALSE, names_type |-> "list", names |-> <<>>, nc |-> 0,
     other |-> "none"]
TypedManifest(type, names, nc, other) ==
    [exists |-> TRUE, names_type |-> type, names |-> names, nc |-> nc,
     other |-> other]
Manifest(names, nc, other) == TypedManifest("list", names, nc, other)

\* line 205, list(cfg.get("names", [])): raises is list(None) failing, items
\* the list built (the characters of a scalar string, the keys of a mapping),
\* strings whether its items are str, which normalize_label_name needs at
\* line 69
NamesList(doc) ==
    [raises  |-> doc.names_type = "null",
     items   |-> IF doc.names_type = "str"
                 THEN [i \in 1..Len(doc.names) |-> <<doc.names[i]>>]
                 ELSE doc.names,
     strings |-> doc.names_type \in {"list", "str"}]

\* lines 206-208: the test of old_names
NamesRejected(old) == old = <<>>

\* the exit status of the process by the position main stopped at: sys.exit(1)
\* at lines 202 and 208, an uncaught exception, the end of main
ExitStatus(at) == IF at = "done" THEN 0 ELSE 1

\* whether the run wrote to sys.stderr: the ERROR lines of lines 201 and 207,
\* the traceback of an uncaught exception
ErrorPrinted(at) == at \in {"fatal", "raised"}

\* the backup directory: yaml is data.yaml.bak, labels the copied label trees
NoCopy == MissingManifest
NoBackup ==
    [exists |-> FALSE, yaml |-> NoCopy,
     labels |-> [s \in {Splits[i] : i \in 1..Len(Splits)} |-> NoDir]]

NoReport == [printed |-> FALSE]

\* no run of main
MainIdle ==
    /\ manifest = MissingManifest
    /\ backup = NoBackup
    /\ pc = "idle"
    /\ cfg = MissingManifest
    /\ si = 1
    /\ total = NoCounts
    /\ all_issues = <<>>
    /\ report = NoReport
    /\ bk = "none"
    /\ bi = 1
    /\ run = 0

\* what a call of process_split returned: the counters and the issues
NoResult == [taken |-> FALSE, num |-> NoCounts, issues |-> <<>>]
Result(counts, found) == [taken |-> TRUE, num |-> counts, issues |-> found]

\* how a run ended: the mode it ran in and the position it stopped at
NoRun == [apply |-> FALSE, end |-> "none"]

\* the dataset: data.yaml and the label trees
Dataset(doc, trees) == [manifest |-> doc, labels |-> trees]

\* what a run leaves to compare the next one with: the report it printed
\* and the tuples process_split returned to it
Outcome(printed, tuples) == [report |-> printed, returned |-> tuples]
NoOutcome == Outcome(NoReport, <<>>)

\* no earlier call, no earlier run, no dataset
HistIdle ==
    /\ first = NoResult
    /\ last = NoRun
    /\ returned = <<>>
    /\ prev = NoOutcome
    /\ orig = Dataset(MissingManifest,
                      [s \in {Splits[i] : i \in 1..Len(Splits)} |-> NoDir])

\* line 133: the stems of the images that have no label file, in the order
\* of the loop
MissingLabelStems(image_stems, label_stems) == Sorted(image_stems \ label_stems)

\* line 136: the stems of the label files that have no image, in the order of
\* the loop
MissingImageStems_Swapped(image_stems, label_stems) ==
    Sorted(image_stems \ label_stems)

MissingImageStems(image_stems, label_stems) == Sorted(label_stems \ image_stems)

\* lines 117-138: the locals and the check for orphaned images and labels
ScanSplit ==
    /\ ps = "scan"
    /\ LET image_stems == images[ps_split]
           files       == iter_label_files(labels[ps_split])
           label_stems == {files[i] : i \in 1..Len(files)}
           no_label    == MissingLabelStems(image_stems, label_stems)
           no_image    == MissingImageStems(image_stems, label_stems)
       IN  /\ label_files' = files
           /\ issues' =
                 [i \in 1..Len(no_label) |->
                     Issue("missing_label", ps_split, no_label[i], <<>>)] \o
                 [i \in 1..Len(no_image) |->
                     Issue("missing_image", ps_split, no_image[i], <<>>)]
           /\ num' = [NoCounts EXCEPT !.missing_labels = Len(no_label),
                                      !.missing_images = Len(no_image)]
    /\ fi' = 1
    /\ ps' = "files"
    /\ UNCHANGED <<ps_split, labels, images, writes>>
    /\ UNCHANGED <<normVars, histVars, buildVars, callVars, mainVars>>

\* lines 140-172: one iteration of the loop over label_files
ProcessFile ==
    /\ ps = "files"
    /\ fi <= Len(label_files)
    /\ LET stem    == label_files[fi]
           file    == labels[ps_split].files[stem]
           content == Strip(file.text)
           r       == LineLoop(SplitLines(content), 1, remap, ps_split, stem,
                               <<>>, FALSE, <<>>)
           \* line 172 is in no try block: what write_text raises leaves
           \* the loop and process_split
           failed  == /\ file.readable
                      /\ content # <<>>
                      /\ ShouldWrite(apply, r.changed)
                      /\ ~file.writable
       IN  /\ IF ~file.readable
              THEN /\ issues' = Append(issues,
                                       Issue("read_failed", ps_split, stem, <<>>))
                   /\ num' = [num EXCEPT !.processed = @ + 1]
                   /\ UNCHANGED <<labels, writes>>
              ELSE IF content = <<>>
              THEN /\ num' = [num EXCEPT !.processed = @ + 1, !.empty = @ + 1]
                   /\ UNCHANGED <<issues, labels, writes>>
              ELSE /\ num' = [num EXCEPT !.processed = @ + 1]
                   /\ issues' = issues \o r.issues
                   /\ IF ShouldWrite(apply, r.changed) /\ file.writable
                      THEN /\ labels' =
                                 [labels EXCEPT ![ps_split].files[stem] =
                                     TextFile(WrittenText(r.new_lines))]
                           /\ writes' = writes \cup {<<ps_split, stem>>}
                      ELSE UNCHANGED <<labels, writes>>
           /\ ps' = IF failed THEN "raised" ELSE ps
           /\ fi' = IF failed THEN fi ELSE fi + 1
    /\ UNCHANGED <<ps_split, label_files, images>>
    /\ UNCHANGED <<normVars, histVars, buildVars, callVars, mainVars>>

\* line 173: return to the caller
ReturnSplit ==
    /\ ps = "files"
    /\ fi > Len(label_files)
    /\ ps' = "return"
    /\ UNCHANGED <<ps_split, label_files, fi, num, issues, labels, images, writes>>
    /\ UNCHANGED <<normVars, histVars, buildVars, callVars, mainVars>>

-----------------------------------------------------------------------------
(* normalize_label_name applied once and twice                             *)

NormIdle ==
    /\ raw = <<>>
    /\ once = <<>>
    /\ twice = <<>>
    /\ npc = "idle"

NormInit ==
    /\ raw \in RawNames
    /\ once = <<>>
    /\ twice = <<>>
    /\ npc = "raw"

NormalizeOnce ==
    /\ npc = "raw"
    /\ once' = normalize_label_name(raw)
    /\ npc' = "once"
    /\ UNCHANGED <<raw, twice>>
    /\ UNCHANGED <<histVars, buildVars, splitVars, diskVars, callVars, mainVars>>

NormalizeTwice ==
    /\ npc = "once"
    /\ twice' = normalize_label_name(once)
    /\ npc' = "twice"
    /\ UNCHANGED <<raw, once>>
    /\ UNCHANGED <<histVars, buildVars, splitVars, diskVars, callVars, mainVars>>

NormNext == NormalizeOnce \/ NormalizeTwice

NormStart ==
    NormInit /\ BuildIdle /\ SplitIdle /\ DiskIdle /\ MainIdle /\ HistIdle

NormSpec == NormStart /\ [][NormNext]_vars

\* C4: canonicalisation is idempotent: normalising a normalised name gives
\* the same name, for every raw name, alias hits included.
C4_Idempotent == npc = "twice" => twice = once

\* a raw name the alias table rewrote, normalised twice
C4_Witness ==
    /\ npc = "twice"
    /\ Normalized(raw) = damaged \o roof
    /\ once = damaged \o US \o roof

-----------------------------------------------------------------------------
(* build_names_and_remap applied to a raw taxonomy                         *)

BuildNext == Build

BuildStart ==
    BuildInit /\ NormIdle /\ SplitIdle /\ DiskIdle /\ MainIdle /\ HistIdle

BuildSpec == BuildStart /\ [][BuildNext]_vars

N == Len(old_names)
M == Len(new_names)

Range(f) == {f[x] : x \in DOMAIN f}

\* C3: the remap table is total over the old indices [0, N) and its values
\* are exactly [0, M), with M <= N.
C3_TotalDense ==
    bpc = "built" =>
        /\ DOMAIN remap = 0..(N - 1)
        /\ Range(remap) = 0..(M - 1)
        /\ M <= N

\* a taxonomy with duplicates: three names, two canonical names
C3_Witness ==
    /\ bpc = "built"
    /\ N = 3
    /\ M = 2

\* C7: the canonical taxonomy at remap[i] is the canonical form of the raw
\* name at i, two old indices share a new index exactly when their canonical
\* forms are equal, and ["Damaged Roof", "damaged-roof", "Window"] gives
\* ["damaged_roof", "window"] with remap {0:0, 1:0, 2:1}.
C7_RemapCorrect ==
    bpc = "built" =>
        /\ \A i \in 0..(N - 1) :
              /\ i \in DOMAIN remap
              /\ remap[i] + 1 \in DOMAIN new_names
              /\ new_names[remap[i] + 1] = normalize_label_name(old_names[i + 1])
        /\ \A i, j \in 0..(N - 1) :
              (remap[i] = remap[j]) <=>
              (normalize_label_name(old_names[i + 1]) =
               normalize_label_name(old_names[j + 1]))
        /\ old_names = <<Damaged \o SP \o Roof, damaged \o HY \o roof, Window>> =>
              /\ new_names = <<damaged \o US \o roof, window>>
              /\ remap = (0 :> 0) @@ (1 :> 0) @@ (2 :> 1)

\* the scenario's taxonomy, built
C7_Witness ==
    /\ bpc = "built"
    /\ old_names = <<Damaged \o SP \o Roof, damaged \o HY \o roof, Window>>
    /\ new_names = <<damaged \o US \o roof, window>>

\* the smallest old index mapped to new index a
FirstOld(a) == CHOOSE i \in DOMAIN remap :
                   /\ remap[i] = a
                   /\ \A j \in DOMAIN remap : remap[j] = a => i <= j

\* the old indices whose raw name has the canonical form name
Occurrences(name) ==
    {i \in 0..(N - 1) : normalize_label_name(old_names[i + 1]) = name}

\* the smallest of a non-empty set of indices
Least(S) == CHOOSE i \in S : \A j \in S : i <= j

\* C8: the canonical taxonomy has no duplicates and lists the canonical names
\* in order of first occurrence in the raw taxonomy: for new indices a < b the
\* smallest old index mapped to a, which is where the name at a first occurs,
\* is smaller than the smallest old index mapped to b.
C8_FirstOccurrenceOrder ==
    bpc = "built" =>
        /\ \A a, b \in 1..M : new_names[a] = new_names[b] => a = b
        /\ \A a \in 0..(M - 1) :
              /\ Occurrences(new_names[a + 1]) # {}
              /\ \E i \in DOMAIN remap : remap[i] = a
              /\ FirstOld(a) = Least(Occurrences(new_names[a + 1]))
        /\ \A a, b \in 0..(M - 1) : a < b => FirstOld(a) < FirstOld(b)

\* a duplicate met after a second canonical name: window, roof, window
C8_Witness ==
    /\ bpc = "built"
    /\ N = 3
    /\ M = 2
    /\ remap[0] = 0
    /\ remap[1] = 1
    /\ remap[2] = 0

-----------------------------------------------------------------------------
(* process_split called twice on one split with the same remap table       *)

Line1          == <<"1"," ","0",".","5"," ","0",".","5"," ","0",".","2"," ","0",".","2">>
Line2          == <<"0"," ","0",".","1"," ","0",".","1"," ","0",".","0","5"," ","0",".","0","5">>
LineBlank      == <<>>
LineNonInt     == <<"x"," ","0",".","5">>
LineUnmapped   == <<"7"," ","0",".","1">>
LineZeroPadded == <<"0","1"," "," ","0",".","2">>
LineSpaced     == <<" ","2"," ","0",".","5","\t","0",".","5"," ">>

LabelLines ==
    {Line1, Line2, LineBlank, LineNonInt, LineUnmapped, LineZeroPadded, LineSpaced}

\* Label file contents: at most MaxLines lines joined by "\n"
MaxLines == 2

RECURSIVE LineListsOf(_)
LineListsOf(n) ==
    IF n = 0 THEN {<<>>}
    ELSE LET shorter == LineListsOf(n - 1)
         IN  shorter \cup {Append(l, x) : l \in shorter, x \in LabelLines}

LabelTexts == {Join(NL, l) : l \in LineListsOf(MaxLines)}

\* the second label file of the split, when there is one
OtherLabelFiles == {UnreadableFile, TextFile(LineSpaced), TextFile(NL)}

RewriteDirs ==
    {Dir("a" :> TextFile(t)) : t \in LabelTexts} \cup
    {Dir(("a" :> TextFile(t)) @@ ("b" :> f)) : t \in LabelTexts, f \in OtherLabelFiles}

\* taxonomies whose tables merge, keep and reorder class ids
RewriteTaxonomies ==
    { <<Damaged \o SP \o Roof, damaged \o HY \o roof, Window>>,
      <<Window, Damaged \o SP \o Roof>>,
      <<Window, damaged \o roof, window \o SP>> }

\* a table no taxonomy gives: the caller of process_split may pass any dict
SwapRemap == (0 :> 1) @@ (1 :> 0)

RewriteInit ==
    /\ \/ /\ old_names \in RewriteTaxonomies
          /\ new_names = build_names_and_remap(old_names).new_names
          /\ remap = build_names_and_remap(old_names).remap
       \/ /\ old_names = NoNames
          /\ new_names = NoNames
          /\ remap = SwapRemap
    /\ bpc = "idle"
    /\ apply \in BOOLEAN
    /\ \E d \in RewriteDirs :
          labels = [s \in {Splits[i] : i \in 1..Len(Splits)} |->
                       IF s = "train" THEN d ELSE NoDir]
    /\ images = [s \in {Splits[i] : i \in 1..Len(Splits)} |->
                     IF s = "train" THEN {"a", "c"} ELSE {}]
    /\ writes = {}
    /\ pass = 0
    /\ SplitIdle
    /\ NormIdle
    /\ MainIdle
    /\ HistIdle

\* process_split(root / "train", remap, apply) is called
RewriteCall ==
    /\ ps = "idle"
    /\ pass < 2
    /\ pass' = pass + 1
    /\ ps' = "scan"
    /\ ps_split' = "train"
    /\ writes' = {}
    /\ UNCHANGED <<label_files, fi, num, issues, labels, images, apply>>
    /\ UNCHANGED <<normVars, histVars, buildVars, mainVars>>

\* the caller takes the returned tuple
RewriteTake ==
    /\ ps = "return"
    /\ ps' = "idle"
    /\ UNCHANGED <<ps_split, label_files, fi, num, issues>>
    /\ UNCHANGED <<normVars, histVars, buildVars, diskVars, callVars, mainVars>>

RewriteNext ==
    \/ RewriteCall
    \/ ScanSplit
    \/ ProcessFile
    \/ ReturnSplit
    \/ RewriteTake

RewriteSpec == RewriteInit /\ [][RewriteNext]_vars

\* the lines of a text and the tokens of each, as a reader of the file sees them
TokenLines(text) ==
    LET lines == SplitLines(text)
    IN  [i \in 1..Len(lines) |-> Split(lines[i])]

HasTokens(parts) == parts # <<>>

\* a line process_split keeps: tokens, an integer class id, an id of the table
Keepable(parts) ==
    /\ parts # <<>>
    /\ ParseInt(parts[1]).ok
    /\ ParseInt(parts[1]).val \in DOMAIN remap

\* some kept line of the text has a class id the table maps to another id
HasRemappedLine(text) ==
    \E i \in 1..Len(TokenLines(text)) :
        LET parts == TokenLines(text)[i]
        IN  /\ Keepable(parts)
            /\ remap[ParseInt(parts[1]).val] # ParseInt(parts[1]).val

TextOf(disk, path) == disk[path[1]].files[path[2]].text

IdempotentTable(rm) ==
    \A i \in DOMAIN rm : rm[i] \in DOMAIN rm /\ rm[rm[i]] = rm[i]

Out1 == <<"0"," ","0",".","5"," ","0",".","5"," ","0",".","2"," ","0",".","2">>
Out2 == <<"1"," ","0",".","1"," ","0",".","1"," ","0",".","0","5"," ","0",".","0","5">>

\* C5 as stated: with a table built from a taxonomy, a second call of the
\* rewrite step in apply mode with the same table overwrites no file.
C5_SecondPassWritesNothing ==
    (pass = 2 /\ ps = "return" /\ apply /\ old_names # NoNames) => writes = {}

\* C5 amended: a second call of the rewrite step in apply mode with the same
\* table overwrites no file when the table maps every new index to itself
\* (remap[remap[i]] = remap[i] for every old index i).
C5_SecondPassWritesNothingIfIdempotent ==
    (pass = 2 /\ ps = "return" /\ apply /\ IdempotentTable(remap)) => writes = {}

\* the second call has returned, and the first rewrote "2 0.5 0.5" to
\* "0 0.5 0.5" with the table {0:0, 1:1, 2:0}
C5_Witness ==
    /\ pass = 2
    /\ ps = "return"
    /\ apply
    /\ remap = (0 :> 0) @@ (1 :> 1) @@ (2 :> 0)
    /\ labels["train"].files["a"].text =
           <<"0"," ","0",".","5"," ","0",".","5","\n">>

\* C6 as stated: a rewritten file holds the lines of the original that have
\* tokens, in order, each with its geometry tokens unchanged; only lines
\* without tokens are missing.
C6_OnlyBlankLinesDropped ==
    [][\A w \in writes' \ writes :
          LET old  == TokenLines(TextOf(labels, w))
              new  == TokenLines(TextOf(labels', w))
              kept == SelectSeq(old, HasTokens)
          IN  /\ Len(new) = Len(kept)
              /\ \A k \in 1..Len(new) :
                    new[k] # <<>> /\ Tail(new[k]) = Tail(kept[k])]_vars

\* C6 amended: a rewritten file holds, in order, the lines of the original
\* that have tokens, an integer class id and an id of the remap table, each
\* with its geometry tokens unchanged; the lines missing are those without
\* tokens, with a non-integer class id or with an id outside the table.
C6_OnlyClassIdChanges ==
    [][\A w \in writes' \ writes :
          LET old  == TokenLines(TextOf(labels, w))
              new  == TokenLines(TextOf(labels', w))
              kept == SelectSeq(old, Keepable)
          IN  /\ Len(new) = Len(kept)
              /\ \A k \in 1..Len(new) :
                    new[k] # <<>> /\ Tail(new[k]) = Tail(kept[k])]_vars

\* file a was rewritten and a line of it with a non-integer id was dropped
C6_Witness ==
    /\ <<"train", "a">> \in writes
    /\ \E i \in 1..Len(issues) :
          issues[i].kind = "non_integer" /\ issues[i].stem = "a"

\* the file process_split is about to handle
Current(split, stem) ==
    /\ ps = "files"
    /\ fi <= Len(label_files)
    /\ split = ps_split
    /\ stem = label_files[fi]

\* C9: a label file is overwritten exactly when apply is true and a kept line
\* of it has its class id remapped to another value; every other file is left
\* as it was, and an overwritten file's content differs from the original.
C9_WrittenIffApplyAndChanged ==
    [][\A i \in 1..Len(Splits) : \A stem \in Stems :
          LET split == Splits[i]
              path  == <<split, stem>>
          IN  (labels[split].exists /\ stem \in DOMAIN labels[split].files) =>
                /\ (path \in writes' \ writes) <=>
                      /\ Current(split, stem)
                      /\ apply
                      /\ labels[split].files[stem].readable
                      /\ HasRemappedLine(TextOf(labels, path))
                /\ IF path \in writes' \ writes
                   THEN TextOf(labels', path) # TextOf(labels, path)
                   ELSE labels'[split].files[stem] = labels[split].files[stem]]_vars

\* in apply mode file a was overwritten and file b was read and left alone
C9_Witness ==
    /\ apply
    /\ ps = "return"
    /\ writes = {<<"train", "a">>}
    /\ label_files = <<"a", "b">>

\* C10 as stated: every kept line of a rewritten file is str(remap[old id])
\* followed by its geometry tokens, and "1 0.5 0.5 0.2 0.2\n0 0.1 0.1 0.05
\* 0.05" with remap {0:1, 1:0} becomes "0 0.5 0.5 0.2 0.2\n1 0.1 0.1 0.05 0.05".
C10_RewrittenLines ==
    [][\A w \in writes' \ writes :
          LET old  == TokenLines(TextOf(labels, w))
              new  == TokenLines(TextOf(labels', w))
              kept == SelectSeq(old, Keepable)
          IN  /\ Len(new) = Len(kept)
              /\ \A k \in 1..Len(new) :
                    new[k] = <<Str(remap[ParseInt(kept[k][1]).val])>> \o Tail(kept[k])
              /\ (TextOf(labels, w) = Line1 \o NL \o Line2 /\ remap = SwapRemap) =>
                    TextOf(labels', w) = Out1 \o NL \o Out2]_vars

\* C10 amended: every kept line of a rewritten file has a first token that
\* denotes remap[old id], namely str(remap[old id]) where that differs from
\* the old id and the original token otherwise, followed by its geometry
\* tokens; the lines are joined by newlines and end with a newline, so "1 0.5
\* 0.5 0.2 0.2\n0 0.1 0.1 0.05 0.05" with remap {0:1, 1:0} becomes
\* "0 0.5 0.5 0.2 0.2\n1 0.1 0.1 0.05 0.05\n".
C10_RewrittenLinesDenoteRemap ==
    [][\A w \in writes' \ writes :
          LET old  == TokenLines(TextOf(labels, w))
              new  == TokenLines(TextOf(labels', w))
              kept == SelectSeq(old, Keepable)
          IN  /\ Len(new) = Len(kept)
              /\ \A k \in 1..Len(new) :
                    LET old_idx == ParseInt(kept[k][1]).val
                    IN  /\ new[k] # <<>>
                        /\ ParseInt(new[k][1]).ok
                        /\ ParseInt(new[k][1]).val = remap[old_idx]
                        /\ new[k][1] = IF remap[old_idx] # old_idx
                                       THEN Str(remap[old_idx])
                                       ELSE kept[k][1]
                        /\ Tail(new[k]) = Tail(kept[k])
              /\ TextOf(labels', w) =
                    Join(NL, [k \in 1..Len(new) |-> Join(SP, new[k])]) \o NL
              /\ (TextOf(labels, w) = Line1 \o NL \o Line2 /\ remap = SwapRemap) =>
                    TextOf(labels', w) = Out1 \o NL \o Out2 \o NL]_vars

\* the scenario's file after the rewrite with remap {0:1, 1:0}
C10_Witness ==
    /\ apply
    /\ remap = SwapRemap
    /\ <<"train", "a">> \in writes
    /\ labels["train"].files["a"].text = Out1 \o NL \o Out2 \o NL

-----------------------------------------------------------------------------
(* main: runs of the script on a dataset                                   *)

SplitSet == {Splits[i] : i \in 1..Len(Splits)}

\* the path of data.yaml in the log of writes
YamlPath == <<"root", "data.yaml">>

\* line 211: where main goes after build_names_and_remap
AfterBuild_NoBackup(ap) == "splits"

AfterBuild(ap) == IF ap THEN "backup" ELSE "splits"

\* lines 231-232: the document handed to dump_yaml
UpdatedManifest_NamesOnly(doc, names) ==
    [doc EXCEPT !.names = names, !.names_type = "list"]

UpdatedManifest(doc, names) ==
    [doc EXCEPT !.names = names, !.names_type = "list", !.nc = Len(names)]

\* lines 200-202 and 206-208: data.yaml is missing or names is missing or empty
FatalExit ==
    /\ pc = "start"
    /\ \/ ~manifest.exists
       \/ ~NamesList(manifest).raises /\ NamesRejected(NamesList(manifest).items)
    /\ cfg' = manifest
    /\ pc' = "fatal"
    /\ UNCHANGED <<manifest, backup, si, total, all_issues, report, bk, bi, run>>
    /\ UNCHANGED <<normVars, histVars, buildVars, splitVars, diskVars, callVars>>

\* lines 204-219: load data.yaml, build the taxonomy and the table
LoadManifest ==
    /\ pc = "start"
    /\ manifest.exists
    /\ ~NamesList(manifest).raises
    /\ ~NamesRejected(NamesList(manifest).items)
    /\ NamesList(manifest).strings
    /\ cfg' = manifest
    /\ old_names' = NamesList(manifest).items
    /\ new_names' = build_names_and_remap(NamesList(manifest).items).new_names
    /\ remap' = build_names_and_remap(NamesList(manifest).items).remap
    /\ pc' = AfterBuild(apply)
    /\ total' = NoCounts
    /\ all_issues' = <<>>
    /\ si' = 1
    /\ UNCHANGED <<manifest, backup, report, bk, bi, run, bpc>>
    /\ UNCHANGED <<normVars, histVars, splitVars, diskVars, callVars>>

\* line 205 or line 69 raises: list(None) is a TypeError, and the items of
\* old_names that are not str have no strip(). Nothing catches it: the
\* traceback is printed and the process ends
LoadRaises ==
    /\ pc = "start"
    /\ manifest.exists
    /\ \/ NamesList(manifest).raises
       \/ /\ ~NamesRejected(NamesList(manifest).items)
          /\ ~NamesList(manifest).strings
    /\ cfg' = manifest
    /\ pc' = "raised"
    /\ UNCHANGED <<manifest, backup, si, total, all_issues, report, bk, bi, run>>
    /\ UNCHANGED <<normVars, histVars, buildVars, splitVars, diskVars, callVars>>

\* backup_dataset, line 178: the test that ends the call at once
AlreadyBackedUp_Never(b) == FALSE

AlreadyBackedUp_IfComplete(b) == b.exists /\ b.yaml.exists

AlreadyBackedUp(b) == b.exists

\* backup_dataset, lines 178-179: the backup directory exists already
BackupSkip ==
    /\ pc = "backup"
    /\ AlreadyBackedUp(backup)
    /\ bk' = "skipped"
    /\ pc' = "splits"
    /\ UNCHANGED <<manifest, backup, cfg, si, total, all_issues, report, bi, run>>
    /\ UNCHANGED <<normVars, histVars, buildVars, splitVars, diskVars, callVars>>

\* backup_dataset, line 180: backup_dir.mkdir
BackupMkdir ==
    /\ pc = "backup"
    /\ ~AlreadyBackedUp(backup)
    /\ backup' = [NoBackup EXCEPT !.exists = TRUE]
    /\ pc' = "backup_yaml"
    /\ UNCHANGED <<manifest, cfg, si, total, all_issues, report, bk, bi, run>>
    /\ UNCHANGED <<normVars, histVars, buildVars, splitVars, diskVars, callVars>>

\* backup_dataset, line 182: copy data.yaml to data.yaml.bak
BackupYaml ==
    /\ pc = "backup_yaml"
    /\ backup' = [backup EXCEPT !.yaml = manifest]
    /\ bi' = 1
    /\ pc' = "backup_labels"
    /\ UNCHANGED <<manifest, cfg, si, total, all_issues, report, bk, run>>
    /\ UNCHANGED <<normVars, histVars, buildVars, splitVars, diskVars, callVars>>

\* backup_dataset, lines 184-192: copy the label tree of one split
BackupLabels ==
    /\ pc = "backup_labels"
    /\ bi <= Len(Splits)
    /\ backup' = IF labels[Splits[bi]].exists
                 THEN [backup EXCEPT !.labels[Splits[bi]] = labels[Splits[bi]]]
                 ELSE backup
    /\ bi' = bi + 1
    /\ UNCHANGED <<manifest, pc, cfg, si, total, all_issues, report, bk, run>>
    /\ UNCHANGED <<normVars, histVars, buildVars, splitVars, diskVars, callVars>>

\* backup_dataset, line 193, and line 213
BackupReturn ==
    /\ pc = "backup_labels"
    /\ bi > Len(Splits)
    /\ bk' = "copied"
    /\ pc' = "splits"
    /\ UNCHANGED <<manifest, backup, cfg, si, total, all_issues, report, bi, run>>
    /\ UNCHANGED <<normVars, histVars, buildVars, splitVars, diskVars, callVars>>

\* lines 220-222: process_split is called for the next split
MainCallSplit ==
    /\ pc = "splits"
    /\ ps = "idle"
    /\ si <= Len(Splits)
    /\ ps' = "scan"
    /\ ps_split' = Splits[si]
    /\ UNCHANGED <<label_files, fi, num, issues>>
    /\ UNCHANGED <<normVars, histVars, buildVars, diskVars, callVars, mainVars>>

\* lines 222-227: the returned tuple is added to the totals
MainTakeResult ==
    /\ pc = "splits"
    /\ ps = "return"
    /\ total' = [processed      |-> total.processed + num.processed,
                 empty          |-> total.empty + num.empty,
                 missing_images |-> total.missing_images + num.missing_images,
                 missing_labels |-> total.missing_labels + num.missing_labels]
    /\ all_issues' = all_issues \o issues
    /\ si' = si + 1
    /\ ps' = "idle"
    /\ UNCHANGED <<ps_split, label_files, fi, num, issues>>
    /\ returned' = Append(returned, Result(num, issues))
    /\ UNCHANGED <<manifest, backup, pc, cfg, report, bk, bi, run>>
    /\ UNCHANGED <<first, last, orig, prev>>
    /\ UNCHANGED <<normVars, buildVars, diskVars, callVars>>

\* line 222: an exception of process_split is not caught in main either
MainRaise ==
    /\ pc = "splits"
    /\ ps = "raised"
    /\ pc' = "raised"
    /\ UNCHANGED <<manifest, backup, cfg, si, total, all_issues, report, bk, bi, run>>
    /\ UNCHANGED <<normVars, histVars, buildVars, splitVars, diskVars, callVars>>

\* lines 229-233: data.yaml is rewritten
UpdateManifest ==
    /\ pc = "splits"
    /\ ps = "idle"
    /\ si > Len(Splits)
    /\ apply
    /\ cfg' = UpdatedManifest(cfg, new_names)
    /\ manifest' = UpdatedManifest(cfg, new_names)
    /\ writes' = writes \cup {YamlPath}
    /\ pc' = "report"
    /\ UNCHANGED <<backup, si, total, all_issues, report, bk, bi, run>>
    /\ UNCHANGED <<normVars, histVars, buildVars, splitVars, callVars, labels, images>>

\* line 229 in a dry run: nothing is written
SkipManifest ==
    /\ pc = "splits"
    /\ ps = "idle"
    /\ si > Len(Splits)
    /\ ~apply
    /\ pc' = "report"
    /\ UNCHANGED <<manifest, backup, cfg, si, total, all_issues, report, bk, bi, run>>
    /\ UNCHANGED <<normVars, histVars, buildVars, splitVars, diskVars, callVars>>

\* lines 235-269: the report is assembled and printed
PrintReport ==
    /\ pc = "report"
    /\ report' = [printed         |-> TRUE,
                  old_num_classes |-> Len(old_names),
                  new_num_classes |-> Len(new_names),
                  old_names       |-> old_names,
                  new_names       |-> new_names,
                  remap           |-> remap,
                  counts          |-> total,
                  issues          |-> all_issues]
    /\ pc' = "done"
    /\ UNCHANGED <<manifest, backup, cfg, si, total, all_issues, bk, bi, run>>
    /\ UNCHANGED <<normVars, histVars, buildVars, splitVars, diskVars, callVars>>

\* The datasets of the runs
MaxRuns == 2

YamlOther == "train: ../train/images"

RunManifests ==
    { MissingManifest,
      Manifest(<<>>, 0, YamlOther),
      TypedManifest("null", <<>>, 0, YamlOther),
      TypedManifest("ints", <<Str(0), Str(1)>>, 2, YamlOther),
      TypedManifest("str", roof, 1, YamlOther),
      Manifest(<<Damaged \o SP \o Roof, damaged \o HY \o roof, Window>>, 3, YamlOther),
      Manifest(<<damaged \o US \o roof, window>>, 2, YamlOther) }

TrainDirs ==
    { NoDir,
      Dir("a" :> TextFile(Line1 \o NL \o Line2)),
      Dir(("a" :> ReadOnlyFile(Line1)) @@ ("b" :> TextFile(Line2))),
      Dir(("a" :> TextFile(LineSpaced)) @@ ("b" :> UnreadableFile)),
      Dir(("a" :> TextFile(LineNonInt \o NL \o Line1)) @@ ("b" :> TextFile(NL))) }

ValidDirs == {NoDir, Dir("a" :> TextFile(LineSpaced \o NL \o LineUnmapped \o NL))}

TestDirs == {Dir(<<>>), Dir("c" :> TextFile(Line1))}

\* the script is started again on the dataset as the last run left it
StartRun ==
    /\ pc \in {"done", "fatal", "raised", "killed"}
    /\ last' = [apply |-> apply, end |-> pc]
    /\ run < MaxRuns
    /\ run' = run + 1
    /\ apply' \in BOOLEAN
    /\ pc' = "start"
    /\ cfg' = MissingManifest
    /\ old_names' = NoNames
    /\ new_names' = NoNames
    /\ remap' = NoRemap
    /\ si' = 1
    /\ total' = NoCounts
    /\ all_issues' = <<>>
    /\ report' = NoReport
    /\ bk' = "none"
    /\ bi' = 1
    /\ writes' = {}
    /\ ps' = "idle"
    /\ ps_split' = "none"
    /\ label_files' = <<>>
    /\ fi' = 1
    /\ num' = NoCounts
    /\ issues' = <<>>
    /\ UNCHANGED <<manifest, backup, labels, images, pass, bpc, normVars>>
    /\ prev' = Outcome(report, returned)
    /\ returned' = <<>>
    /\ UNCHANGED <<first, orig>>

Init ==
    /\ manifest \in RunManifests
    /\ \E tr \in TrainDirs, va \in ValidDirs, te \in TestDirs :
          labels = [s \in SplitSet |->
                       IF s = "train" THEN tr ELSE IF s = "valid" THEN va ELSE te]
    /\ images = [s \in SplitSet |->
                     IF s = "train" THEN {"a", "c"}
                     ELSE IF s = "valid" THEN {"a"} ELSE {}]
    /\ backup = NoBackup
    /\ apply \in BOOLEAN
    /\ run = 1
    /\ pc = "start"
    /\ cfg = MissingManifest
    /\ si = 1
    /\ total = NoCounts
    /\ all_issues = <<>>
    /\ report = NoReport
    /\ bk = "none"
    /\ bi = 1
    /\ writes = {}
    /\ pass = 0
    /\ SplitIdle
    /\ BuildIdle
    /\ NormIdle
    /\ first = NoResult
    /\ last = NoRun
    /\ orig = Dataset(manifest, labels)
    /\ returned = <<>>
    /\ prev = NoOutcome

Next ==
    \/ FatalExit
    \/ LoadManifest
    \/ LoadRaises
    \/ BackupSkip
    \/ BackupMkdir
    \/ BackupYaml
    \/ BackupLabels
    \/ BackupReturn
    \/ MainCallSplit
    \/ ScanSplit
    \/ ProcessFile
    \/ ReturnSplit
    \/ MainTakeResult
    \/ MainRaise
    \/ UpdateManifest
    \/ SkipManifest
    \/ PrintReport
    \/ StartRun

Spec == Init /\ [][Next]_vars

\* The process is killed (SIGKILL, power loss) between two steps of a run:
\* what it has written stays on disk, what it had in memory is lost to the
\* next run
Interrupt ==
    /\ pc \in {"start", "backup", "backup_yaml", "backup_labels", "splits", "report"}
    /\ pc' = "killed"
    /\ UNCHANGED <<manifest, backup, cfg, si, total, all_issues, report, bk, bi, run>>
    /\ UNCHANGED <<normVars, histVars, buildVars, splitVars, diskVars, callVars>>

KillNext ==
    \/ Next
    \/ Interrupt

KillSpec == Init /\ [][KillNext]_vars

\* C1: in a dry run no file is created, modified or deleted: the backup
\* directory, the label files and data.yaml stay as they are, and nothing is
\* written.
C1_DryRunWritesNothing ==
    [][~apply => /\ UNCHANGED <<manifest, labels, images, backup>>
                 /\ writes' = {}]_vars

\* a dry run that ended with issues on a dataset an apply run would rewrite
C1_Witness ==
    /\ ~apply
    /\ pc = "done"
    /\ all_issues # <<>>
    /\ new_names # old_names
    /\ labels["train"].exists
    /\ "a" \in DOMAIN labels["train"].files
    /\ HasRemappedLine(labels["train"].files["a"].text)

\* C2 as stated: every overwrite of a label file and every rewrite of
\* data.yaml comes after a backup_dataset call of the same run that copied
\* data.yaml and the label trees.
C2_WritesAfterSnapshot ==
    [][writes' \ writes # {} => bk = "copied"]_vars

\* C2 amended: every overwrite of a label file and every rewrite of data.yaml
\* happens in apply mode after a backup_dataset call of the same run has
\* returned with the backup directory in place; that call copied data.yaml
\* and the label trees only if the directory did not exist when it was
\* called, and then the copies are the files as they were before the run's
\* first write.
C2_WritesAfterBackupCall ==
    [][writes' \ writes # {} =>
          /\ apply
          /\ bk \in {"copied", "skipped"}
          /\ backup.exists
          /\ (bk = "copied" /\ writes = {}) =>
                /\ backup.yaml = manifest
                /\ \A s \in SplitSet : backup.labels[s] = labels[s]]_vars

\* an apply run that copied the dataset and then overwrote a label file
C2_Witness ==
    /\ apply
    /\ bk = "copied"
    /\ <<"train", "a">> \in writes
    /\ backup.labels["train"].files["a"] # labels["train"].files["a"]

-----------------------------------------------------------------------------
(* Fatal preconditions                                                     *)

\* names of a loaded data.yaml is no valid class list: the key is absent or
\* empty, or its value is not a list of strings
InvalidNames(doc) ==
    doc.exists /\ (doc.names_type # "list" \/ doc.names = <<>>)

\* the run has left no trace on disk and has scanned no split
NothingDone ==
    /\ writes = {}
    /\ ps = "idle"
    /\ si = 1
    /\ total = NoCounts
    /\ bk = "none"

\* C11: a run whose data.yaml is missing, or whose names is absent, empty or
\* not a list of strings, goes nowhere but to its end with a message on the
\* error stream and a non-zero status, having scanned no split and written
\* no file.
C11_InvalidManifestIsFatal ==
    [][(pc = "start" /\ (~manifest.exists \/ InvalidNames(manifest)))
          => /\ ErrorPrinted(pc')
             /\ ExitStatus(pc') # 0
             /\ NothingDone'
             /\ UNCHANGED <<manifest, labels, backup>>]_vars

-----------------------------------------------------------------------------
(* Failures on single label files                                          *)

\* the number of label files of the dataset
NumLabelFiles ==
    Len(iter_label_files(labels["train"])) +
    Len(iter_label_files(labels["valid"])) +
    Len(iter_label_files(labels["test"]))

\* the label files that cannot be read
UnreadablePaths ==
    {p \in SplitSet \X Stems :
        /\ labels[p[1]].exists
        /\ p[2] \in DOMAIN labels[p[1]].files
        /\ ~labels[p[1]].files[p[2]].readable}

\* C12: no failure on a label file, a failed write in apply mode included,
\* leaves process_split by an exception: the run goes on to its normal end,
\* where every label file of every split has been visited and every
\* unreadable file has its issue.
C12_FileFailuresIsolated ==
    /\ ps # "raised"
    /\ pc = "done" =>
          /\ total.processed = NumLabelFiles
          /\ \A p \in UnreadablePaths :
                \E i \in 1..Len(all_issues) :
                   all_issues[i] = Issue("read_failed", p[1], p[2], <<>>)

-----------------------------------------------------------------------------
(* The check for orphaned images and labels: process_split is called on    *)
(* split train, whose images have the stems A and whose label files the    *)
(* stems B, and then on split valid, where the two sets change places.     *)

\* the label file of a stem: the one of stem b cannot be read
ScanFile(stem) == IF stem = "b" THEN UnreadableFile ELSE TextFile(Line1)

ScanDir(S) == Dir([stem \in S |-> ScanFile(stem)])

ScanInit ==
    /\ \E A \in SUBSET Stems, B \in SUBSET Stems :
          /\ images = [s \in SplitSet |->
                           IF s = "train" THEN A ELSE IF s = "valid" THEN B ELSE {}]
          /\ labels = [s \in SplitSet |->
                           IF s = "train" THEN ScanDir(B)
                           ELSE IF s = "valid" THEN ScanDir(A) ELSE NoDir]
    /\ old_names = NoNames
    /\ new_names = NoNames
    /\ remap = SwapRemap
    /\ bpc = "idle"
    /\ apply = FALSE
    /\ writes = {}
    /\ pass = 0
    /\ SplitIdle
    /\ NormIdle
    /\ MainIdle
    /\ HistIdle

\* process_split is called on the next of the two splits
ScanCall ==
    /\ ps = "idle"
    /\ pass < 2
    /\ pass' = pass + 1
    /\ ps' = "scan"
    /\ ps_split' = Splits[pass + 1]
    /\ UNCHANGED <<label_files, fi, num, issues, labels, images, writes, apply>>
    /\ UNCHANGED <<normVars, histVars, buildVars, mainVars>>

\* the caller takes the returned tuple and keeps the one of the first call
ScanTake ==
    /\ ps = "return"
    /\ ps' = "idle"
    /\ first' = IF pass = 1 THEN Result(num, issues) ELSE first
    /\ UNCHANGED <<last, orig, returned, prev>>
    /\ UNCHANGED <<ps_split, label_files, fi, num, issues>>
    /\ UNCHANGED <<normVars, buildVars, diskVars, callVars, mainVars>>

ScanNext ==
    \/ ScanCall
    \/ ScanSplit
    \/ ProcessFile
    \/ ReturnSplit
    \/ ScanTake

ScanSpec == ScanInit /\ [][ScanNext]_vars

\* the stems of the label files of a split, as they are on disk
LabelStems(split) ==
    IF labels[split].exists THEN DOMAIN labels[split].files ELSE {}

\* the issues of one kind in a list of issues, in the order of the list
OfKind(found, kind) == SelectSeq(found, LAMBDA x : x.kind = kind)

\* the stems a list of issues names, in the order of the list
StemsOf(found) == [i \in 1..Len(found) |-> found[i].stem]

\* how many entries of a list of issues equal x
Count(found, x) == Cardinality({i \in 1..Len(found) : found[i] = x})

\* the place of a stem in the order of sorted()
Place(stem) == CHOOSE i \in 1..Len(StemOrder) : StemOrder[i] = stem

\* the issues process_split holds once its check for orphans is over
Scanned == ps \in {"files", "return", "raised"}

\* C13: for image stems I and label stems L of the split, every stem of
\* I \ L has exactly one missing-label issue, every stem of L \ I exactly one
\* missing-image issue, every other stem none; the missing-label issues come
\* first, in sorted order of their stems, then the missing-image issues in
\* sorted order; the two counters are the sizes of I \ L and L \ I.
C13_OrphanIssues ==
    Scanned =>
       LET I  == images[ps_split]
           L  == LabelStems(ps_split)
           ml == Len(OfKind(issues, "missing_label"))
           mi == Len(OfKind(issues, "missing_image"))
       IN  /\ \A stem \in Stems :
                /\ Count(issues, Issue("missing_label", ps_split, stem, <<>>))
                      = IF stem \in I \ L THEN 1 ELSE 0
                /\ Count(issues, Issue("missing_image", ps_split, stem, <<>>))
                      = IF stem \in L \ I THEN 1 ELSE 0
           /\ ml = Cardinality(I \ L)
           /\ mi = Cardinality(L \ I)
           /\ Len(issues) >= ml + mi
           /\ \A i \in 1..(ml + mi) :
                issues[i].kind = IF i <= ml THEN "missing_label" ELSE "missing_image"
           /\ \A i \in 1..(ml + mi), j \in 1..(ml + mi) :
                (i < j /\ issues[i].kind = issues[j].kind)
                   => Place(issues[i].stem) < Place(issues[j].stem)
           /\ num.missing_labels = Cardinality(I \ L)
           /\ num.missing_images = Cardinality(L \ I)

\* two images without label and one label without image have been reported
C13_Witness ==
    /\ ps = "return"
    /\ ps_split = "train"
    /\ images["train"] = {"a", "c"}
    /\ LabelStems("train") = {"b"}
    /\ SubSeq(issues, 1, 3) = << Issue("missing_label", "train", "a", <<>>),
                                 Issue("missing_label", "train", "c", <<>>),
                                 Issue("missing_image", "train", "b", <<>>) >>
    /\ num.missing_labels = 2
    /\ num.missing_images = 1

\* C14: when the image stems and the label stems change places, the
\* missing-label and the missing-image results change places: the same stems
\* in the same order, and the same counts.
C14_OrphansSymmetric ==
    (pass = 2 /\ first.taken /\ Scanned) =>
       /\ StemsOf(OfKind(issues, "missing_image"))
             = StemsOf(OfKind(first.issues, "missing_label"))
       /\ StemsOf(OfKind(issues, "missing_label"))
             = StemsOf(OfKind(first.issues, "missing_image"))
       /\ num.missing_images = first.num.missing_labels
       /\ num.missing_labels = first.num.missing_images

\* both calls have returned, with two stems on one side and one on the other
C14_Witness ==
    /\ pass = 2
    /\ ps = "return"
    /\ first.taken
    /\ first.num.missing_labels = 2
    /\ first.num.missing_images = 1
    /\ num.missing_images = 2
    /\ num.missing_labels = 1

-----------------------------------------------------------------------------
(* The backup                                                              *)

\* the backup holds data.yaml and every existing label tree as they are now
Snapshot(b) ==
    /\ b.exists
    /\ b.yaml = manifest
    /\ \A s \in SplitSet : labels[s].exists => b.labels[s] = labels[s]

\* C15: the call of backup_dataset that finds no backup directory copies
\* data.yaml and the label trees; a later call with the same root and the
\* same directory name copies nothing and returns at once, and the backup
\* stays as it is for the rest of that run, whatever became of the dataset
\* since the first call.
C15_SecondBackupCopiesNothing ==
    [][/\ (pc = "backup" /\ ~backup.exists) => (backup'.exists /\ bk' = "none")
       /\ (bk = "none" /\ bk' = "copied") => Snapshot(backup)'
       /\ (pc = "backup" /\ backup.exists)
             => (backup' = backup /\ bk' = "skipped" /\ pc' = "splits")
       /\ bk = "skipped" => backup' = backup]_vars

\* the second call has returned on a dataset the first run has rewritten
C15_Witness ==
    /\ run = 2
    /\ last = [apply |-> TRUE, end |-> "done"]
    /\ bk = "skipped"
    /\ backup.yaml = orig.manifest
    /\ backup.labels["train"] = orig.labels["train"]
    /\ backup.yaml # manifest
    /\ backup.labels["train"] # labels["train"]

-----------------------------------------------------------------------------
(* The update of data.yaml                                                 *)

\* C16: data.yaml changes only in an apply run, once process_split has
\* returned for all three splits and every label file was visited; the
\* write sets names to the canonical taxonomy of the names it held and nc to
\* its length, and leaves every other key as it was; a completed apply run
\* has made that write.
C16_ManifestUpdate ==
    [][/\ (manifest' # manifest \/ YamlPath \in writes' \ writes) =>
             /\ apply
             /\ si > Len(Splits)
             /\ ps = "idle"
             /\ total.processed = NumLabelFiles
             /\ manifest'.exists
             /\ manifest'.names_type = "list"
             /\ manifest'.names =
                   build_names_and_remap(NamesList(manifest).items).new_names
             /\ manifest'.nc = Len(manifest'.names)
             /\ manifest'.other = manifest.other
       /\ (pc # "done" /\ pc' = "done" /\ apply) =>
             /\ YamlPath \in writes
             /\ manifest.names = new_names
             /\ manifest.nc = Len(new_names)]_vars

\* an apply run is over that has merged two of three classes
C16_Witness ==
    /\ pc = "done"
    /\ apply
    /\ run = 1
    /\ orig.manifest.nc = 3
    /\ Len(orig.manifest.names) = 3
    /\ manifest.names = <<damaged \o US \o roof, window>>
    /\ manifest.nc = 2
    /\ manifest.other = orig.manifest.other
    /\ total.processed = NumLabelFiles
    /\ NumLabelFiles > 1

-----------------------------------------------------------------------------
(* Empty label files                                                       *)

\* a text of white space only
Blank(text) == \A i \in 1..Len(text) : text[i] \in Whitespace

\* the loop of process_split is at a readable file of white space only
AtBlankFile ==
    /\ ps = "files"
    /\ fi <= Len(label_files)
    /\ labels[ps_split].files[label_files[fi]].readable
    /\ Blank(labels[ps_split].files[label_files[fi]].text)

\* C17 as stated: the empty label file is counted as empty and not counted
\* as processed, yields no issue and is not rewritten.
C17_EmptyNotCountedProcessed ==
    [][AtBlankFile =>
          /\ num'.empty = num.empty + 1
          /\ num'.processed = num.processed
          /\ issues' = issues
          /\ labels' = labels
          /\ writes' = writes]_vars

\* C17: a label file whose trimmed content is empty is counted as empty and
\* is counted among the processed files; none of its lines is parsed, so it
\* yields no issue, and it is not rewritten, in dry-run and in apply mode;
\* no file that is written was empty.
C17_EmptyCountedAndSkipped ==
    [][/\ AtBlankFile =>
             /\ num'.empty = num.empty + 1
             /\ num'.processed = num.processed + 1
             /\ issues' = issues
             /\ labels' = labels
             /\ writes' = writes
       /\ \A p \in (writes' \ writes) \ {YamlPath} :
             ~Blank(TextOf(labels, p))]_vars

\* process_split in apply mode has passed the file b of split train, which
\* holds one newline, and rewrote the file a
C17_Witness ==
    /\ ps = "return"
    /\ ps_split = "train"
    /\ apply
    /\ labels["train"].exists
    /\ DOMAIN labels["train"].files = {"a", "b"}
    /\ labels["train"].files["b"] = TextFile(NL)
    /\ num.empty = 1
    /\ num.processed = 2
    /\ writes = {<<"train", "a">>}

-----------------------------------------------------------------------------
(* Runs after a killed run                                                 *)

\* the backup directory exists and lacks content of the original dataset
Incomplete(b) ==
    /\ b.exists
    /\ \/ b.yaml # orig.manifest
       \/ \E s \in SplitSet : orig.labels[s].exists /\ b.labels[s] # orig.labels[s]

\* C18: an apply run that finds the backup directory an interrupted
\* backup_dataset left incomplete takes it for complete: the call returns at
\* once, and as long as the run lasts nothing is added to the backup, while
\* the run goes on to the splits and to data.yaml.
C18_PartialBackupTakenAsComplete ==
    [][/\ (pc = "backup" /\ Incomplete(backup) /\ pc' # "killed")
             => (bk' = "skipped" /\ pc' = "splits")
       /\ (Incomplete(backup) /\ pc \notin {"backup_yaml", "backup_labels"})
             => backup' = backup]_vars

\* the run after an apply run killed right after mkdir has overwritten a
\* label file and data.yaml, and the backup holds neither original
C18_Witness ==
    /\ pc = "done"
    /\ apply
    /\ last = [apply |-> TRUE, end |-> "killed"]
    /\ bk = "skipped"
    /\ backup = [NoBackup EXCEPT !.exists = TRUE]
    /\ {YamlPath, <<"train", "a">>} \subseteq writes
    /\ manifest # orig.manifest
    /\ labels["train"] # orig.labels["train"]

\* the table maps every old index to itself
IdentityTable(rm) == \A i \in DOMAIN rm : rm[i] = i

\* C19: in an apply run that follows a completed apply run the table is the
\* identity and the taxonomy is the list of names read from data.yaml, no
\* label file is overwritten, and names and nc of data.yaml stay what the
\* run found.
C19_SecondRunChangesNothing ==
    (last = [apply |-> TRUE, end |-> "done"] /\ apply /\ old_names # NoNames) =>
        /\ DOMAIN remap = 0..(Len(old_names) - 1)
        /\ IdentityTable(remap)
        /\ new_names = old_names
        /\ writes \subseteq {YamlPath}
        /\ manifest.names = old_names
        /\ manifest.nc = Len(old_names)

\* the second of two completed apply runs is over; the first one had merged
\* classes and rewritten a label file
C19_Witness ==
    /\ pc = "done"
    /\ apply
    /\ run = 2
    /\ last = [apply |-> TRUE, end |-> "done"]
    /\ writes = {YamlPath}
    /\ Len(orig.manifest.names) = 3
    /\ manifest.names = <<damaged \o US \o roof, window>>
    /\ labels["train"] # orig.labels["train"]

\* what one call of process_split in apply mode with table rm leaves of a
\* label file
RewrittenFile(file, rm, split, stem) ==
    LET content == Strip(file.text)
        r       == LineLoop(SplitLines(content), 1, rm, split, stem,
                            <<>>, FALSE, <<>>)
    IN  IF file.readable /\ content # <<>> /\ r.changed
        THEN TextFile(WrittenText(r.new_lines))
        ELSE file

\* the label trees one uninterrupted apply run makes of the original dataset
RewrittenOnce ==
    LET rm == build_names_and_remap(NamesList(orig.manifest).items).remap
    IN  [s \in SplitSet |->
            IF orig.labels[s].exists
            THEN Dir([stem \in DOMAIN orig.labels[s].files |->
                         RewrittenFile(orig.labels[s].files[stem], rm, s, stem)])
            ELSE orig.labels[s]]

\* C20: when the first apply run was killed before it updated data.yaml and
\* the second apply run has completed, the label files are those one
\* uninterrupted apply run makes of the original dataset.
C20_RerunAfterKillIsSafe ==
    (/\ pc = "done"
     /\ apply
     /\ run = 2
     /\ last = [apply |-> TRUE, end |-> "killed"]
     /\ old_names = NamesList(orig.manifest).items)
       => labels = RewrittenOnce

-----------------------------------------------------------------------------
(* Dry run and apply run on the same dataset                               *)

\* this run is an apply run that follows a completed dry run: the dry run
\* wrote nothing, so both started from the same dataset
ApplyAfterDryRun ==
    /\ apply
    /\ last = [apply |-> FALSE, end |-> "done"]
    /\ prev.report.printed

\* the process of this run has ended
RunOver == pc \in {"done", "fatal", "raised"}

\* the run printed what the previous run printed and got the same tuples
\* from process_split, one per split in the order train, valid, test
SameOutcome ==
    /\ report.printed
    /\ report.new_names = prev.report.new_names
    /\ report.remap = prev.report.remap
    /\ report.counts = prev.report.counts
    /\ report.issues = prev.report.issues
    /\ returned = prev.returned
    /\ Len(returned) = Len(Splits)
    /\ \A i \in 1..Len(returned) :
          \A j \in 1..Len(returned[i].issues) :
             returned[i].issues[j].split = Splits[i]

\* C21: an apply run started on the dataset a dry run was started on ends
\* with the taxonomy, the table, the counts of every split, the totals and
\* the ordered issue list of the dry run, the backup it made
\* notwithstanding.
C21_DryRunPredictsApply ==
    (ApplyAfterDryRun /\ RunOver) => (pc = "done" /\ SameOutcome)

====
